---- MODULE Spec2Model ----
(***************************************************************************)
(* A model of the modint library: the Modulus trait with its two           *)
(* strategies (StaticModulus64<M>, DynamicModulus<T>), the number-theoretic *)
(* helpers (is_prime, mod_pow, primitive root) and the ModInt wrapper.     *)
(*                                                                         *)
(* Three specifications share the module:                                  *)
(*   CallSpec  one call of a Modulus method on drawn arguments             *)
(*   NumSpec   the compute_root program: is_prime, then primitive_root     *)
(*   Spec      a program holding two ModInt values and operating on them   *)
(***************************************************************************)
EXTENDS Integers, Sequences, FiniteSets, TLC

VARIABLES
    build,      \* "debug" (overflow checks on) or "release" (wrapping)
    call,       \* CallSpec: the method call made, or NoCall
    ret,        \* CallSpec: what the call produced
    a, b,       \* Spec: the two ModInt values of the program
    status,     \* Spec: "running", or the panic message the program died with
    last,       \* Spec: the operation performed by the last step
    P,          \* NumSpec: the const modulus of compute_root
    pc,         \* NumSpec: position in main
    prime,      \* NumSpec: what m.is_prime() returned
    frame,      \* NumSpec: the locals of compute_primitive_root
    root        \* NumSpec: what primitive_root() returned

vars == <<build, call, ret, a, b, status, last, P, pc, prime, frame, root>>
callVars == <<call, ret>>
wrapVars == <<a, b, status, last>>
numVars == <<P, pc, prime, frame, root>>

(***************************************************************************)
(* Bounds of the model.                                                    *)
(***************************************************************************)
\* u64 / i64 / u128 are scaled to WordBits / WordBits / 2*WordBits bits.
WordBits == 6
\* DynamicModulus<T> is called with moduli 1..MaxDynModulus.
MaxDynModulus == 12
\* Unreduced arguments of rem / new range over -MaxRaw..MaxRaw.
MaxRaw == 14
\* Exponents of pow range over 0..MaxExp.
MaxExp == 5
\* The ModInt program uses moduli 1..MaxWrapModulus and raw operands up to
\* MaxWrapRaw in absolute value.
MaxWrapModulus == 4
MaxWrapRaw == 5
\* compute_root is run for every P in 0..MaxP (and the well-known moduli).
MaxP == 150
\* The reference primality test tries the divisors 2..SqrtCap; its square
\* exceeds every P the model uses.
SqrtCap == 69000

Word == 2 ^ WordBits
UMax == Word - 1
IMin == -(2 ^ (WordBits - 1))
IMax == 2 ^ (WordBits - 1) - 1
Builds == {"debug", "release"}
overflow_checks == build = "debug"

(***************************************************************************)
(* Machine arithmetic.                                                     *)
(***************************************************************************)
Abs(v) == IF v < 0 THEN -v ELSE v

\* Rust's `/` and `%` on integers truncate towards zero.
TDiv(x, y) ==
    IF (x < 0) = (y < 0) THEN Abs(x) \div Abs(y) ELSE -(Abs(x) \div Abs(y))

TRem(x, y) == x - y * TDiv(x, y)

\* `v as i64` of a u64, and the wrap of an i64 result.
AsSigned(v) == IF v % Word > IMax THEN (v % Word) - Word ELSE v % Word

\* `v as u64` of an i64.
AsUnsigned(v) == v % Word

SignedOverflow(v) == v < IMin \/ v > IMax

(***************************************************************************)
(* Results of a call: a value, or a panic (fatal assertion).               *)
(***************************************************************************)
Ok(v) == [ok |-> TRUE, val |-> v, msg |-> ""]
Panic(m) == [ok |-> FALSE, val |-> 0, msg |-> m]
Then(r, F(_)) == IF r.ok THEN F(r.val) ELSE r

(***************************************************************************)
(* impl Modulus<u64> for StaticModulus64<M>                                *)
(***************************************************************************)
StaticModulus64_rem(M, x) == Ok(x % M)

StaticModulus64_zero(M) == Ok(0)

StaticModulus64_one(M) == Ok(1)

StaticModulus64_neg(M, x) ==
    IF ~(x < M) THEN Panic("assertion failed: x < M")
    ELSE IF x = 0 THEN Ok(0) ELSE Ok(M - x)

StaticModulus64_add(M, x, y) ==
    IF ~(x < M /\ y < M) THEN Panic("assertion failed: x < M && y < M")
    ELSE IF x + y > UMax /\ overflow_checks
         THEN Panic("attempt to add with overflow")
    ELSE LET z == (x + y) % Word
         IN  IF z >= M THEN Ok(z - M) ELSE Ok(z)

\* The product is taken in u128, which holds it: no overflow, no wrap.
StaticModulus64_mul(M, x, y) ==
    IF ~(x < M /\ y < M) THEN Panic("assertion failed: x < M && y < M")
    ELSE Ok((x * y) % M)

\* The extended Euclid loop on s = (s0, s1), t = (t0, t1), all i64.
RECURSIVE StaticModulus64_inv_loop(_, _, _, _)
StaticModulus64_inv_loop(s0, s1, t0, t1) ==
    IF t0 = 0 THEN Ok(<<s0, s1>>)
    ELSE IF s0 = IMin /\ t0 = -1 THEN Panic("attempt to divide with overflow")
    ELSE LET u == TDiv(s0, t0)
             p0 == t0 * u
             n0 == s0 - AsSigned(p0)
             p1 == t1 * u
             n1 == s1 - AsSigned(p1)
         IN  IF overflow_checks /\ (SignedOverflow(p0) \/ SignedOverflow(n0)
                                    \/ SignedOverflow(p1) \/ SignedOverflow(n1))
             THEN Panic("attempt to multiply or subtract with overflow")
             ELSE StaticModulus64_inv_loop(t0, t1, AsSigned(n0), AsSigned(n1))

StaticModulus64_inv(M, x) ==
    IF ~(x < M) THEN Panic("assertion failed: x < M")
    ELSE IF x = 0 THEN Panic("division by zero occured")
    ELSE Then(StaticModulus64_inv_loop(AsSigned(M), 0, AsSigned(x), 1),
              LAMBDA s :
                IF s[1] # 1 THEN Panic("gcd which is not 1")
                ELSE IF s[2] < 0
                     THEN LET q == AsSigned(M \div AsUnsigned(s[1]))
                          IN  IF overflow_checks /\ SignedOverflow(s[2] + q)
                              THEN Panic("attempt to add with overflow")
                              ELSE Ok(AsUnsigned(AsSigned(s[2] + q)))
                     ELSE Ok(AsUnsigned(s[2])))

(***************************************************************************)
(* impl Modulus<T> for DynamicModulus<T>, T a signed type wide enough for  *)
(* the squared modulus (T: Neg rules the unsigned types out).              *)
(***************************************************************************)
DynamicModulus_rem(M, x) == Ok(TRem(x, M))

DynamicModulus_zero(M) == Ok(0)

DynamicModulus_one(M) == Ok(TRem(1, M))

DynamicModulus_neg(M, x) == Ok(TRem(-x, M))

DynamicModulus_add(M, x, y) == Ok(TRem(x + y, M))

DynamicModulus_mul(M, x, y) == Ok(TRem(x * y, M))

RECURSIVE DynamicModulus_inv_loop(_, _, _, _)
DynamicModulus_inv_loop(s0, s1, t0, t1) ==
    IF t0 = 0 THEN <<s0, s1>>
    ELSE LET u == TDiv(s0, t0)
         IN  DynamicModulus_inv_loop(t0, t1, s0 + (-t0) * u, s1 + (-t1) * u)

DynamicModulus_inv(M, x) ==
    IF x = 0 THEN Panic("division by zero occured")
    ELSE LET s == DynamicModulus_inv_loop(M, 0, x, TRem(1, M))
         IN  IF s[2] < 0
             THEN DynamicModulus_add(M, s[2], TDiv(M, s[1]))
             ELSE Ok(s[2])

RECURSIVE DynamicModulus_is_prime_loop(_, _)
DynamicModulus_is_prime_loop(M, i) ==
    IF ~(i * i <= M) THEN Ok(TRUE)
    ELSE IF i = 0
         THEN Panic("attempt to calculate the remainder with a divisor of zero")
    ELSE IF TRem(M, i) = 0 THEN Ok(FALSE)
    ELSE DynamicModulus_is_prime_loop(M, i + TRem(1, M))

DynamicModulus_is_prime(M) ==
    IF M = TRem(1, M) THEN Ok(FALSE)
    ELSE DynamicModulus_is_prime_loop(M, TRem(1, M) + TRem(1, M))

(***************************************************************************)
(* trait Modulus<T>: a strategy is [kind, M]; the required methods         *)
(* dispatch on the implementing type, sub / div / pow are the defaults.    *)
(***************************************************************************)
Static(M) == [kind |-> "static", M |-> M]
Dynamic(M) == [kind |-> "dynamic", M |-> M]

modulus(m) == m.M

rem(m, x) ==
    IF m.kind = "static" THEN StaticModulus64_rem(m.M, x)
    ELSE DynamicModulus_rem(m.M, x)

zero(m) ==
    IF m.kind = "static" THEN StaticModulus64_zero(m.M)
    ELSE DynamicModulus_zero(m.M)

one(m) ==
    IF m.kind = "static" THEN StaticModulus64_one(m.M)
    ELSE DynamicModulus_one(m.M)

neg(m, x) ==
    IF m.kind = "static" THEN StaticModulus64_neg(m.M, x)
    ELSE DynamicModulus_neg(m.M, x)

inv(m, x) ==
    IF m.kind = "static" THEN StaticModulus64_inv(m.M, x)
    ELSE DynamicModulus_inv(m.M, x)

add(m, x, y) ==
    IF m.kind = "static" THEN StaticModulus64_add(m.M, x, y)
    ELSE DynamicModulus_add(m.M, x, y)

mul(m, x, y) ==
    IF m.kind = "static" THEN StaticModulus64_mul(m.M, x, y)
    ELSE DynamicModulus_mul(m.M, x, y)

sub(m, x, y) == Then(neg(m, y), LAMBDA n : add(m, x, n))

div(m, x, y) == Then(inv(m, y), LAMBDA i : mul(m, x, i))

RECURSIVE pow_loop(_, _, _, _)
pow_loop(m, x, y, z) ==
    IF y = 0 THEN Ok(z)
    ELSE LET z1 == IF y % 2 # 0 THEN mul(m, z, x) ELSE Ok(z)
         IN  Then(z1, LAMBDA zv :
                 Then(mul(m, x, x), LAMBDA xv : pow_loop(m, xv, y \div 2, zv)))

pow(m, x, y) == Then(one(m), LAMBDA z : pow_loop(m, x, y, z))

(***************************************************************************)
(* CallSpec: one call of a Modulus method.  The strategy and the arguments *)
(* are drawn from the bounded sets below; arguments are reduced            *)
(* (0 <= x < M) except for rem, whose argument is any representable value. *)
(***************************************************************************)
NoCall == [fn |-> "none"]
StaticModuli == 1 .. UMax
DynModuli == 1 .. MaxDynModulus
Strategies == {Static(M) : M \in StaticModuli} \cup {Dynamic(M) : M \in DynModuli}
Reduced(m) == 0 .. (m.M - 1)
Raw(m) == IF m.kind = "static" THEN 0 .. UMax ELSE (-MaxRaw) .. MaxRaw

CallInit ==
    /\ build \in Builds
    /\ call = NoCall
    /\ ret = Ok(0)
    /\ a = 0 /\ b = 0 /\ status = "unused" /\ last = "unused"
    /\ P = 0 /\ pc = "unused" /\ prime = FALSE /\ frame = 0 /\ root = 0

Call1(fn, m, x, r) ==
    /\ call' = [fn |-> fn, m |-> m, x |-> x, y |-> 0]
    /\ ret' = r
    /\ UNCHANGED <<build, wrapVars, numVars>>

Call2(fn, m, x, y, r) ==
    /\ call' = [fn |-> fn, m |-> m, x |-> x, y |-> y]
    /\ ret' = r
    /\ UNCHANGED <<build, wrapVars, numVars>>

CallRem ==
    /\ call = NoCall
    /\ \E m \in Strategies : \E x \in Raw(m) : Call1("rem", m, x, rem(m, x))

CallZero ==
    /\ call = NoCall
    /\ \E m \in Strategies : Call1("zero", m, 0, zero(m))

CallOne ==
    /\ call = NoCall
    /\ \E m \in Strategies : Call1("one", m, 0, one(m))

CallNeg ==
    /\ call = NoCall
    /\ \E m \in Strategies : \E x \in Reduced(m) : Call1("neg", m, x, neg(m, x))

CallInv ==
    /\ call = NoCall
    /\ \E m \in Strategies : \E x \in Reduced(m) : Call1("inv", m, x, inv(m, x))

CallAdd ==
    /\ call = NoCall
    /\ \E m \in Strategies : \E x, y \in Reduced(m) : Call2("add", m, x, y, add(m, x, y))

CallMul ==
    /\ call = NoCall
    /\ \E m \in Strategies : \E x, y \in Reduced(m) : Call2("mul", m, x, y, mul(m, x, y))

CallSub ==
    /\ call = NoCall
    /\ \E m \in Strategies : \E x, y \in Reduced(m) : Call2("sub", m, x, y, sub(m, x, y))

CallDiv ==
    /\ call = NoCall
    /\ \E m \in Strategies : \E x, y \in Reduced(m) : Call2("div", m, x, y, div(m, x, y))

CallPow ==
    /\ call = NoCall
    /\ \E m \in Strategies : \E x \in Reduced(m) : \E y \in 0 .. MaxExp :
        Call2("pow", m, x, y, pow(m, x, y))

CallIsPrime ==
    /\ call = NoCall
    /\ \E M \in DynModuli :
        Call1("is_prime", Dynamic(M), 0, DynamicModulus_is_prime(M))

CallNext ==
    \/ CallRem \/ CallZero \/ CallOne \/ CallNeg \/ CallInv
    \/ CallAdd \/ CallMul \/ CallSub \/ CallDiv \/ CallPow \/ CallIsPrime

CallSpec == CallInit /\ [][CallNext]_vars

(***************************************************************************)
(* struct ModInt<T, M> { value, modulus } and its methods.  A method       *)
(* returns Ok(the ModInt) or the panic it died with.                       *)
(***************************************************************************)
ModInt_raw(value, m) == [value |-> value, modulus |-> m]

ModInt_new(value, m) == Then(rem(m, value), LAMBDA v : Ok(ModInt_raw(v, m)))

\* From<T>: new(value, M::default()); m is the default strategy of the type.
ModInt_from(value, m) == ModInt_new(value, m)

ModInt_zero(m) == Then(zero(m), LAMBDA v : Ok(ModInt_raw(v, m)))

ModInt_one(m) == Then(one(m), LAMBDA v : Ok(ModInt_raw(v, m)))

ModInt_inv(self) ==
    Then(inv(self.modulus, self.value), LAMBDA v : Ok(ModInt_raw(v, self.modulus)))

ModInt_pow(self, n) ==
    Then(pow(self.modulus, self.value, n), LAMBDA v : Ok(ModInt_raw(v, self.modulus)))

\* $op of define_binary_operation!: the strategy's method of that name.
Ops == {"add", "sub", "mul", "div"}
StrategyOp(op, m, x, y) ==
    CASE op = "add" -> add(m, x, y)
      [] op = "sub" -> sub(m, x, y)
      [] op = "mul" -> mul(m, x, y)
      [] op = "div" -> div(m, x, y)

\* A comparison of the strategies' types where their values are meant.
SameModulusKindOnly(self, other) == self.modulus.kind = other.modulus.kind

\* The condition of assert!(self.modulus == other.modulus, "mod mismatch").
SameModulus(self, other) == self.modulus = other.modulus

\* impl $Op for ModInt and impl $OpAssign for ModInt: the new value of self.
ModInt_op(op, self, other) ==
    IF ~SameModulus(self, other) THEN Panic("mod mismatch")
    ELSE Then(StrategyOp(op, self.modulus, self.value, other.value),
              LAMBDA v : Ok(ModInt_raw(v, self.modulus)))

\* impl $Op<T> for ModInt and impl $OpAssign<T> for ModInt.
ModInt_op_raw(op, self, other) ==
    Then(rem(self.modulus, other), LAMBDA o :
        Then(StrategyOp(op, self.modulus, self.value, o),
             LAMBDA v : Ok(ModInt_raw(v, self.modulus))))

(***************************************************************************)
(* Spec: a program with two ModInt variables a and b of one Rust type:     *)
(* ModInt<u64, StaticModulus64<M>> (both carry Static(M)) or               *)
(* ModInt<T, DynamicModulus<T>> (each carries its own runtime modulus).    *)
(* A panic ends the program.                                               *)
(***************************************************************************)
WrapModuli == 1 .. MaxWrapModulus
WrapRaw(m) == IF m.kind = "static" THEN 0 .. MaxWrapRaw ELSE (-MaxWrapRaw) .. MaxWrapRaw
\* What an uninitialized T may hold when a panic unwinds out of $op_assign.
Garbage(m) == IF m.kind = "static" THEN 0 .. UMax ELSE (-MaxRaw) .. MaxRaw
\* The strategies a newly built value of a's type may carry.
TypeStrategies == IF a.modulus.kind = "static" THEN {a.modulus}
                  ELSE {Dynamic(M) : M \in WrapModuli}

Init ==
    /\ build \in Builds
    /\ \E ma \in {Static(M) : M \in WrapModuli} \cup {Dynamic(M) : M \in WrapModuli} :
         \E mb \in IF ma.kind = "static" THEN {ma} ELSE {Dynamic(M) : M \in WrapModuli} :
            /\ a = ModInt_new(0, ma).val
            /\ b = ModInt_new(0, mb).val
    /\ status = "running"
    /\ last = "new"
    /\ call = NoCall /\ ret = Ok(0)
    /\ P = 0 /\ pc = "unused" /\ prime = FALSE /\ frame = 0 /\ root = 0

\* x = <r>, where evaluating r may panic; x is "a" or "b".
Assign(x, r, what) ==
    /\ last' = what
    /\ IF r.ok
       THEN /\ status' = "running"
            /\ a' = IF x = "a" THEN r.val ELSE a
            /\ b' = IF x = "b" THEN r.val ELSE b
       ELSE /\ status' = r.msg
            /\ UNCHANGED <<a, b>>
    /\ UNCHANGED <<build, callVars, numVars>>

\* a $op_assign ...: the assertion (if any) comes first; past it the held value
\* is replaced by an uninitialized one until the result is stored.
AssignInPlace(r, what) ==
    /\ last' = what
    /\ IF r.ok
       THEN /\ status' = "running"
            /\ a' = r.val
       ELSE /\ status' = r.msg
            /\ IF r.msg = "mod mismatch" THEN a' = a
               ELSE \E g \in Garbage(a.modulus) : a' = [a EXCEPT !.value = g]
    /\ UNCHANGED <<b, build, callVars, numVars>>

New ==
    /\ status = "running"
    /\ \E x \in {"a", "b"} : \E m \in TypeStrategies : \E v \in WrapRaw(m) :
          Assign(x, ModInt_new(v, m), "new")

From ==
    /\ status = "running" /\ a.modulus.kind = "static"
    /\ \E x \in {"a", "b"} : \E v \in WrapRaw(a.modulus) :
          Assign(x, ModInt_from(v, a.modulus), "from")

Zero ==
    /\ status = "running" /\ a.modulus.kind = "static"
    /\ \E x \in {"a", "b"} : Assign(x, ModInt_zero(a.modulus), "zero")

One ==
    /\ status = "running" /\ a.modulus.kind = "static"
    /\ \E x \in {"a", "b"} : Assign(x, ModInt_one(a.modulus), "one")

Inv == status = "running" /\ Assign("a", ModInt_inv(a), "inv")

Pow ==
    /\ status = "running"
    /\ \E n \in 0 .. MaxExp : Assign("a", ModInt_pow(a, n), "pow")

\* a = a $op b
BinOp ==
    /\ status = "running"
    /\ \E op \in Ops : Assign("a", ModInt_op(op, a, b), "binop")

\* a $op_assign b
BinOpAssign ==
    /\ status = "running"
    /\ \E op \in Ops : AssignInPlace(ModInt_op(op, a, b), "binop_assign")

\* a = a $op raw
BinOpRaw ==
    /\ status = "running"
    /\ \E op \in Ops : \E v \in WrapRaw(a.modulus) :
          Assign("a", ModInt_op_raw(op, a, v), "raw")

\* a $op_assign raw
BinOpAssignRaw ==
    /\ status = "running"
    /\ \E op \in Ops : \E v \in WrapRaw(a.modulus) :
          AssignInPlace(ModInt_op_raw(op, a, v), "raw_assign")

Next ==
    \/ New \/ From \/ Zero \/ One \/ Inv \/ Pow
    \/ BinOp \/ BinOpAssign \/ BinOpRaw \/ BinOpAssignRaw

Spec == Init /\ [][Next]_vars

(***************************************************************************)
(* Numbers of the compute_root program.  Its moduli (998244353, ...) and   *)
(* their squares exceed the integers of TLC, so a u64 is held here as      *)
(* <<hi, lo>> = hi * Base + lo, and u64 / u128 arithmetic is built from    *)
(* addition, subtraction and comparison.  None of the operations of        *)
(* is_prime, mod_pow and compute_primitive_root can leave the u64 range    *)
(* for the moduli used, so no width is modelled here.                      *)
(***************************************************************************)
Base == 2 ^ 14
FromNat(n) == <<n \div Base, n % Base>>
BZero == <<0, 0>>
BOne == <<0, 1>>
BTwo == <<0, 2>>
BLt(x, y) == x[1] < y[1] \/ (x[1] = y[1] /\ x[2] < y[2])
BLe(x, y) == x = y \/ BLt(x, y)
BAdd(x, y) == <<x[1] + y[1] + ((x[2] + y[2]) \div Base), (x[2] + y[2]) % Base>>
\* x - y for x >= y
BSub(x, y) ==
    IF x[2] < y[2] THEN <<x[1] - y[1] - 1, x[2] - y[2] + Base>>
    ELSE <<x[1] - y[1], x[2] - y[2]>>
BOdd(x) == x[2] % 2 = 1
\* x >> 1 and x << 1
BHalf(x) == <<x[1] \div 2, (x[2] + (x[1] % 2) * Base) \div 2>>
BDouble(x) == BAdd(x, x)

\* The loops below are recursive functions of a tuple of numbers, so each
\* iteration works on the values the previous one computed.
BigSeq == Seq(Nat \X Nat)

\* acc + x * y for s = <<x, y, acc>>
BMulLoop[s \in BigSeq] ==
    IF s[2] = BZero THEN s[3]
    ELSE BMulLoop[<<BDouble(s[1]), BHalf(s[2]),
                    IF BOdd(s[2]) THEN BAdd(s[3], s[1]) ELSE s[3]>>]

BMul(x, y) == BMulLoop[<<x, y, BZero>>]

\* The largest d * 2^k <= x for s = <<d, x>>, 0 < d <= x
BScaleUp[s \in BigSeq] ==
    IF BLe(BDouble(s[1]), s[2]) THEN BScaleUp[<<BDouble(s[1]), s[2]>>] ELSE s[1]

\* Long division for s = <<r, d, q, y>>, d = y * 2^k: <<quotient, remainder>>
BDivLoop[s \in BigSeq] ==
    LET fits == BLe(s[2], s[1])
        r1 == IF fits THEN BSub(s[1], s[2]) ELSE s[1]
        q1 == IF fits THEN BAdd(BDouble(s[3]), BOne) ELSE BDouble(s[3])
    IN  IF s[2] = s[4] THEN <<q1, r1>>
        ELSE BDivLoop[<<r1, BHalf(s[2]), q1, s[4]>>]

\* <<x / y, x % y>> for y > 0
BDivMod(x, y) ==
    IF BLt(x, y) THEN <<BZero, x>>
    ELSE BDivLoop[<<x, BScaleUp[<<y, x>>], BZero, y>>]

BDiv(x, y) == BDivMod(x, y)[1]
BMod(x, y) == BDivMod(x, y)[2]

\* (u + v) % m for u, v < m
BAddMod(u, v, m) ==
    LET sum == BAdd(u, v) IN IF BLe(m, sum) THEN BSub(sum, m) ELSE sum

\* (acc + x * y) % m for s = <<x, y, m, acc>>, x, acc < m
BMulModLoop[s \in BigSeq] ==
    IF s[2] = BZero THEN s[4]
    ELSE BMulModLoop[<<BAddMod(s[1], s[1], s[3]), BHalf(s[2]), s[3],
                       IF BOdd(s[2]) THEN BAddMod(s[4], s[1], s[3]) ELSE s[4]>>]

\* (x as u128 * y as u128 % m as u128) as u64
BMulMod(x, y, m) == BMulModLoop[<<BMod(x, m), y, m, BZero>>]

\* v >> v.trailing_zeros() for v > 0
StripTwos[v \in Nat \X Nat] == IF BOdd(v) THEN v ELSE StripTwos[BHalf(v)]

(***************************************************************************)
(* const fn mod_pow and const fn is_prime                                  *)
(***************************************************************************)
\* The while of mod_pow for s = <<x, y, m, z>>
mod_pow_loop[s \in BigSeq] ==
    IF s[2] = BZero THEN s[4]
    ELSE mod_pow_loop[<<BMulMod(s[1], s[1], s[3]), BHalf(s[2]), s[3],
                        IF BOdd(s[2]) THEN BMulMod(s[4], s[1], s[3]) ELSE s[4]>>]

mod_pow(x, y, m) == mod_pow_loop[<<x, y, m, BOne>>]

witnesses == <<FromNat(2), FromNat(7), FromNat(61)>>

\* The inner while of is_prime for s = <<y, t, n>>: <<y, t>> when it exits.
is_prime_squarings[s \in BigSeq] ==
    IF s[2] # BSub(s[3], BOne) /\ s[1] # BOne /\ s[1] # BSub(s[3], BOne)
    THEN is_prime_squarings[<<BMulMod(s[1], s[1], s[3]), BDouble(s[2]), s[3]>>]
    ELSE <<s[1], s[2]>>

\* One round of the outer while: FALSE when it returns false.
is_prime_round(w, d, n) ==
    LET yt == is_prime_squarings[<<mod_pow(w, d, n), d, n>>]
    IN  ~(yt[1] # BSub(n, BOne) /\ ~BOdd(yt[2]))

is_prime(n) ==
    IF BLe(n, BOne) THEN FALSE
    ELSE IF n = FromNat(2) \/ n = FromNat(7) \/ n = FromNat(61) THEN TRUE
    ELSE IF ~BOdd(n) THEN FALSE
    ELSE \A i \in 1 .. Len(witnesses) :
            is_prime_round(witnesses[i], StripTwos[BSub(n, BOne)], n)

(***************************************************************************)
(* impl StaticModulus64<M>: primitive_root and compute_primitive_root      *)
(***************************************************************************)
\* The length of the primes buffer, [2; 16].
PrimesCapacity == 16

\* while x % i == 0 { x /= i } for s = <<x, i>>
StripFactor[s \in BigSeq] ==
    IF BMod(s[1], s[2]) = BZero THEN StripFactor[<<BDiv(s[1], s[2]), s[2]>>]
    ELSE s[1]

\* primes[primes_len] = p; primes_len += 1, on Ok(the primes so far)
PushPrime(primes, p) ==
    IF Len(primes) >= PrimesCapacity THEN Panic("index out of bounds")
    ELSE Ok(Append(primes, p))

\* The locals of compute_primitive_root as the trial division starts.
FrameInit(M) ==
    [primes |-> <<BTwo>>, x |-> StripTwos[BSub(M, BOne)], i |-> FromNat(3), g |-> BTwo]

\* One turn of `while i * i <= x`, on Ok(the frame after it).
TrialDivide(f) ==
    IF BMod(f.x, f.i) = BZero
    THEN Then(PushPrime(f.primes, f.i), LAMBDA ps :
             Ok([f EXCEPT !.primes = ps,
                          !.x = StripFactor[<<BDiv(f.x, f.i), f.i>>],
                          !.i = BAdd(f.i, BTwo)]))
    ELSE Ok([f EXCEPT !.i = BAdd(f.i, BTwo)])

\* The block without its last statement: the leftover factor is dropped.
PushLeftoverForgotten(f) == Ok(f)

\* if x > 1 { primes[primes_len] = x; primes_len += 1 }
PushLeftover(f) ==
    IF BLt(BOne, f.x)
    THEN Then(PushPrime(f.primes, f.x), LAMBDA ps : Ok([f EXCEPT !.primes = ps]))
    ELSE Ok(f)

\* The inner while of 'find_root finds no prime p with g^((M-1)/p) = 1.
PassesEveryPrime(M, f) ==
    \A k \in 1 .. Len(f.primes) :
        mod_pow(f.g, BDiv(BSub(M, BOne), f.primes[k]), M) # BOne

M65537 == FromNat(65537)
M167772161 == FromNat(167772161)
M469762049 == FromNat(469762049)
M754974721 == FromNat(754974721)
M998244353 == FromNat(998244353)

\* The arms of the match in primitive_root that name a root: <<M, root>>.
primitive_root_table ==
    { <<FromNat(2), FromNat(1)>>,
      <<M65537, FromNat(3)>>,
      <<M167772161, FromNat(3)>>,
      <<M469762049, FromNat(3)>>,
      <<M754974721, FromNat(11)>>,
      <<M998244353, FromNat(3)>> }

LookupModuli == {e[1] : e \in primitive_root_table}
LookupRoot(M) == (CHOOSE e \in primitive_root_table : e[1] = M)[2]

(***************************************************************************)
(* NumSpec: src/bin/compute_root.rs for a drawn const P: report whether P  *)
(* is prime and, if so, its primitive root.  The loops of                  *)
(* compute_primitive_root run one turn per step.  The program is           *)
(* sequential and runs to its end: a step that can be taken is taken.      *)
(***************************************************************************)
\* The smallest composite that passes Miller-Rabin for the bases 2, 7, 61.
Pseudoprime == BMul(FromNat(48781), FromNat(97561))
BoundaryModuli == {FromNat(1000000007), FromNat(1000000008), Pseudoprime}
Candidates == {FromNat(n) : n \in 0 .. MaxP} \cup LookupModuli \cup BoundaryModuli
NoFrame == [primes |-> <<>>, x |-> BZero, i |-> BZero, g |-> BZero]

NumInit ==
    /\ P \in Candidates
    /\ pc = "start"
    /\ prime = FALSE
    /\ frame = NoFrame
    /\ root = Ok(BZero)
    /\ build = "release"
    /\ call = NoCall /\ ret = Ok(0)
    /\ a = 0 /\ b = 0 /\ status = "unused" /\ last = "unused"

\* if m.is_prime()
TestPrime ==
    /\ pc = "start"
    /\ prime' = is_prime(P)
    /\ pc' = "tested"
    /\ UNCHANGED <<P, frame, root, build, callVars, wrapVars>>

\* println!("{} is not a prime", P)
ReportNotPrime ==
    /\ pc = "tested" /\ ~prime
    /\ pc' = "done"
    /\ UNCHANGED <<P, prime, frame, root, build, callVars, wrapVars>>

\* StaticModulus64::<P>::primitive_root(): the match on M.
PrimitiveRoot ==
    /\ pc = "tested" /\ prime
    /\ IF P \in LookupModuli
       THEN /\ root' = Ok(LookupRoot(P))
            /\ pc' = "rooted"
            /\ frame' = frame
       ELSE /\ frame' = FrameInit(P)
            /\ pc' = "factor"
            /\ root' = root
    /\ UNCHANGED <<P, prime, build, callVars, wrapVars>>

\* Leave a loop of compute_primitive_root with r: on a panic the program dies.
Continue(r, next) ==
    IF r.ok THEN frame' = r.val /\ pc' = next /\ root' = root
    ELSE frame' = frame /\ pc' = "panicked" /\ root' = r

\* One test of `while i * i <= x`: a turn of the loop, or the block's end.
Factor ==
    /\ pc = "factor"
    /\ IF BLe(BMul(frame.i, frame.i), frame.x)
       THEN Continue(TrialDivide(frame), "factor")
       ELSE Continue(PushLeftover(frame), "search")
    /\ UNCHANGED <<P, prime, build, callVars, wrapVars>>

\* One turn of 'find_root: return g, or g += 1 and continue.
Search ==
    /\ pc = "search"
    /\ IF PassesEveryPrime(P, frame)
       THEN /\ root' = Ok(frame.g)
            /\ pc' = "rooted"
            /\ frame' = frame
       ELSE /\ frame' = [frame EXCEPT !.g = BAdd(frame.g, BOne)]
            /\ pc' = "search"
            /\ root' = root
    /\ UNCHANGED <<P, prime, build, callVars, wrapVars>>

NumNext == TestPrime \/ ReportNotPrime \/ PrimitiveRoot \/ Factor \/ Search

NumSpec == NumInit /\ [][NumNext]_vars /\ WF_vars(NumNext)

(***************************************************************************)
(* Mathematical references the claims are stated against.                  *)
(***************************************************************************)
RECURSIVE GCD(_, _)
GCD(x, y) == IF y = 0 THEN x ELSE GCD(y, x % y)

IsPrimeNat(n) == n >= 2 /\ \A d \in 2 .. (n - 1) : n % d # 0

InRange(m, v) == 0 <= v /\ v < m.M

(***************************************************************************)
(* Claims about single calls (CallSpec).                                   *)
(***************************************************************************)
\* C1: StaticModulus64<M>, M >= 2: for every x in [1, M) coprime to M,
\* inv(x) returns (no panic) a y in [0, M) with mul(y, x) = 1.
C1_StaticInvIsInverse ==
    (/\ call.fn = "inv" /\ call.m.kind = "static" /\ call.m.M >= 2
     /\ call.x >= 1 /\ GCD(call.x, call.m.M) = 1)
    => /\ ret.ok
       /\ InRange(call.m, ret.val)
       /\ mul(call.m, ret.val, call.x) = Ok(1)

\* The part of C1 the code does satisfy: moduli below the sign bit of i64.
StaticInvIsInverseBelowSignBit ==
    (/\ call.fn = "inv" /\ call.m.kind = "static" /\ call.m.M >= 2
     /\ call.m.M <= IMax
     /\ call.x >= 1 /\ GCD(call.x, call.m.M) = 1)
    => /\ ret.ok
       /\ InRange(call.m, ret.val)
       /\ mul(call.m, ret.val, call.x) = Ok(1)

\* C2: for both strategies inv(x) on a reduced x panics, and returns no
\* value, whenever x = 0 or gcd(x, M) # 1.
C2_InvPanicsOnNonUnit ==
    (call.fn = "inv" /\ (call.x = 0 \/ GCD(call.x, call.m.M) # 1)) => ~ret.ok

\* The part of C2 the code does satisfy: the fixed strategy below the sign
\* bit, and x = 0 under either strategy.
InvPanicsOnNonUnitStaticOrZero ==
    (/\ call.fn = "inv"
     /\ \/ call.x = 0
        \/ /\ call.m.kind = "static" /\ call.m.M <= IMax
           /\ GCD(call.x, call.m.M) # 1)
    => ~ret.ok

\* C5: for every M >= 1 of either strategy, reduced x and exponents a, b:
\* pow(x, 0) = 1 mod M, pow(x, 1) = x, pow(x, a + b) = mul(pow(x, a),
\* pow(x, b)), and no call panics.
C5_PowLaws ==
    call.fn = "pow" =>
        /\ ret.ok
        /\ call.y = 0 => ret.val = 1 % call.m.M
        /\ call.y = 1 => ret.val = call.x
        /\ \A e \in 0 .. MaxExp :
              /\ pow(call.m, call.x, e).ok
              /\ pow(call.m, call.x, call.y + e)
                   = mul(call.m, ret.val, pow(call.m, call.x, e).val)

\* The part of C5 the code does satisfy: every modulus but StaticModulus64<1>.
PowLawsButStaticOne ==
    (call.fn = "pow" /\ ~(call.m.kind = "static" /\ call.m.M = 1)) =>
        /\ ret.ok
        /\ call.y = 0 => ret.val = 1 % call.m.M
        /\ call.y = 1 => ret.val = call.x
        /\ \A e \in 0 .. MaxExp :
              /\ pow(call.m, call.x, e).ok
              /\ pow(call.m, call.x, call.y + e)
                   = mul(call.m, ret.val, pow(call.m, call.x, e).val)

\* C6: for both strategies and reduced x, y: neg(x) is 0 for x = 0 and
\* M - x otherwise, add(x, neg(x)) = 0, and sub(x, y) is (x - y) mod M
\* in [0, M).
C6_NegAndSub ==
    /\ call.fn = "neg" =>
          /\ ret = Ok(IF call.x = 0 THEN 0 ELSE call.m.M - call.x)
          /\ add(call.m, call.x, ret.val) = Ok(0)
    /\ call.fn = "sub" => ret = Ok((call.x - call.y) % call.m.M)

\* The part of C6 about neg and add that the fixed strategy satisfies, and
\* the part about sub it satisfies below the sign bit.
NegAndSubStatic ==
    (call.fn \in {"neg", "sub"} /\ call.m.kind = "static") =>
        /\ call.fn = "neg" =>
              ret = Ok(IF call.x = 0 THEN 0 ELSE call.m.M - call.x)
        /\ (call.fn = "sub" /\ call.m.M <= IMax + 1)
              => ret = Ok((call.x - call.y) % call.m.M)

\* C7: StaticModulus64<M>, 1 <= M < 2^w: add(x, y) on reduced x, y returns
\* exactly (x + y) mod M, and x + y stays within the w-bit representation.
C7_StaticAddExact ==
    (call.fn = "add" /\ call.m.kind = "static") =>
        /\ call.x + call.y <= UMax
        /\ ret = Ok((call.x + call.y) % call.m.M)

\* The part of C7 the code does satisfy: M <= 2^(w-1).
StaticAddExactBelowSignBit ==
    (call.fn = "add" /\ call.m.kind = "static" /\ call.m.M <= IMax + 1) =>
        /\ call.x + call.y <= UMax
        /\ ret = Ok((call.x + call.y) % call.m.M)

\* C9: DynamicModulus, M >= 1: is_prime() returns a boolean without
\* panicking: FALSE for M = 1 and otherwise TRUE exactly when M is prime.
C9_DynamicIsPrime ==
    call.fn = "is_prime" => ret = Ok(IsPrimeNat(call.m.M))

\* The part of C9 the code does satisfy: M >= 2.
DynamicIsPrimeFromTwo ==
    (call.fn = "is_prime" /\ call.m.M >= 2) => ret = Ok(IsPrimeNat(call.m.M))

(***************************************************************************)
(* Claims about the ModInt program (Spec).                                 *)
(***************************************************************************)
\* C3: closure: while the program has not panicked, every ModInt built by
\* new / from / zero / one and transformed by the operators, inv and pow
\* holds a value v with 0 <= v < M.
C3_ValuesStayReduced ==
    status = "running" => InRange(a.modulus, a.value) /\ InRange(b.modulus, b.value)

\* The part of C3 the code does satisfy: StaticModulus64<M> with M >= 2
\* (the moduli of this program are far below the sign bit).
ValuesStayReducedStaticFromTwo ==
    (status = "running" /\ a.modulus.kind = "static" /\ a.modulus.M >= 2)
    => InRange(a.modulus, a.value) /\ InRange(b.modulus, b.value)

\* C4: a binary operator or its in-place form on two ModInt values whose
\* strategies differ panics with "mod mismatch" and leaves both operands as
\* they were; on equal strategies a result carries that same strategy.
C4_ModMismatchPanics ==
    [][(status = "running" /\ last' \in {"binop", "binop_assign"}) =>
          IF a.modulus # b.modulus
          THEN status' = "mod mismatch" /\ a' = a /\ b' = b
          ELSE /\ status' # "mod mismatch"
               /\ a'.modulus = a.modulus
               /\ b' = b]_vars

C4_Witness ==
    /\ status = "mod mismatch"
    /\ last = "binop_assign"
    /\ a.modulus.kind = "dynamic"
    /\ a.modulus # b.modulus

(***************************************************************************)
(* References for the compute_root numbers.                                *)
(***************************************************************************)
ToNat(x) == x[1] * Base + x[2]

\* n % d for a divisor d below 2^17
BModSmall(n, d) == ((n[1] % d) * Base + n[2]) % d

\* Trial division.
IsPrimeRef(n) ==
    /\ BLt(BOne, n)
    /\ \A d \in 2 .. (IF BLe(n, FromNat(SqrtCap)) THEN ToNat(n) - 1 ELSE SqrtCap) :
          BModSmall(n, d) # 0

\* g^e mod m for s = <<g, e, m>>, by the recursion on the exponent.
RefPowMod[s \in BigSeq] ==
    IF s[2] = BZero THEN BMod(BOne, s[3])
    ELSE IF BOdd(s[2])
         THEN BMulMod(s[1], RefPowMod[<<s[1], BSub(s[2], BOne), s[3]>>], s[3])
         ELSE RefPowMod[<<BMulMod(s[1], s[1], s[3]), BHalf(s[2]), s[3]>>]

\* n with every prime factor up to MaxP divided out, for s = <<n, p>>.
StripSmall[s \in BigSeq] ==
    IF BLt(FromNat(MaxP), s[2]) \/ s[1] = BOne THEN s[1]
    ELSE IF BMod(s[1], s[2]) = BZero THEN StripSmall[<<BDiv(s[1], s[2]), s[2]>>]
    ELSE StripSmall[<<s[1], BAdd(s[2], BOne)>>]

\* The distinct prime factors of n >= 1: those up to MaxP and the cofactor,
\* which must be 1 or a prime for the answer to be right.
Cofactor(n) == StripSmall[<<n, BTwo>>]
FactorisedByRef(n) == Cofactor(n) = BOne \/ IsPrimeRef(Cofactor(n))
PrimeFactorsRef(n) ==
    {FromNat(q) : q \in {d \in 2 .. MaxP : IsPrimeNat(d) /\ BModSmall(n, d) = 0}}
    \cup (IF Cofactor(n) = BOne THEN {} ELSE {Cofactor(n)})

\* g^(M-1) = 1 and g^((M-1)/p) # 1 (mod M) for every prime factor p of M - 1.
IsGenerator(g, M) ==
    /\ RefPowMod[<<g, BSub(M, BOne), M>>] = BOne
    /\ \A q \in PrimeFactorsRef(BSub(M, BOne)) :
          RefPowMod[<<g, BDiv(BSub(M, BOne), q), M>>] # BOne

\* The powers of g are all of 1 .. M-1 (checked for the moduli up to MaxP).
PowersCoverGroup(g, M) ==
    BLe(M, FromNat(MaxP)) =>
        {ToNat(RefPowMod[<<g, FromNat(e), M>>]) : e \in 1 .. (ToNat(M) - 1)}
            = 1 .. (ToNat(M) - 1)

Range(seq) == {seq[k] : k \in 1 .. Len(seq)}

(***************************************************************************)
(* Claims about is_prime and primitive_root (NumSpec).                     *)
(***************************************************************************)
\* C8: is_prime(n) with the witnesses 2, 7, 61 returns true exactly when n
\* is prime, for every unsigned n.
C8_IsPrimeExact ==
    pc # "start" => (prime <=> IsPrimeRef(P))

\* The part of C8 the code does satisfy: every n below the pseudoprime
\* 4759123141 that the model draws.
IsPrimeExactBelowPseudoprime ==
    (pc = "tested" /\ BLt(P, Pseudoprime)) => (prime <=> IsPrimeRef(P))

\* C10: for every prime M, primitive_root() terminates and returns a
\* generator of the multiplicative group mod M; each lookup-table entry is a
\* generator; for a prime not in the table the root is the smallest
\* generator >= 2 and the primes collected are exactly the distinct prime
\* factors of M - 1, each once, within the 16 slots.
RootIsRight ==
    (pc = "rooted" /\ IsPrimeRef(P)) =>
        /\ root.ok
        /\ FactorisedByRef(BSub(P, BOne))
        /\ IsGenerator(root.val, P)
        /\ PowersCoverGroup(root.val, P)
        /\ P \notin LookupModuli =>
              /\ BLe(BTwo, root.val)
              /\ \A h \in 2 .. (ToNat(root.val) - 1) : ~IsGenerator(FromNat(h), P)
              /\ Range(frame.primes) = PrimeFactorsRef(BSub(P, BOne))
              /\ Cardinality(Range(frame.primes)) = Len(frame.primes)
              /\ Len(frame.primes) <= PrimesCapacity

\* C10, with its termination: the program never panics, every root it
\* reports for a prime P is right, and once is_prime() has returned true
\* primitive_root() returns.
C10_PrimitiveRootGenerates ==
    /\ [](RootIsRight /\ pc # "panicked")
    /\ (pc = "tested" /\ prime) ~> (pc = "rooted")

C10_Witness ==
    /\ pc = "rooted"
    /\ P = FromNat(7)
    /\ root = Ok(FromNat(3))
    /\ frame.primes = <<BTwo, FromNat(3)>>

====
